---- MODULE Spec2Model ----
(***************************************************************************)
(* Model of the chunked CSV analysis and transformation engine of          *)
(* server/controllers/csv_controller.py: analyze_csv_quality_chunked,      *)
(* preprocess_csv_task_chunked, apply_preprocessing_options and the        *)
(* endpoints that enqueue and poll transform jobs.                         *)
(*                                                                         *)
(* Text is a sequence of one-character strings.  A file is a header (a     *)
(* sequence of column names) and a sequence of lines, each a sequence of   *)
(* cell texts.  A line with more cells than the header is a bad line: the  *)
(* strict reader fails on it, the lenient reader skips it.  A file with    *)
(* no header at all is the empty file, on which every read fails.          *)
(***************************************************************************)
EXTENDS Integers, Sequences, FiniteSets, TLC

VARIABLES
    fs,               \* the upload folder: path -> file content, or NoFile
    chunkSize,        \* rows per batch of the chunked reader (CHUNK_SIZE)
    apc,              \* analyze: position in analyze_csv_quality_chunked
    sample_size,      \* analyze: the sample_size argument
    columns,          \* analyze: list(first_chunk.columns)
    dtypes,           \* analyze: column -> dtype label
    chunk_i,          \* analyze: index i of the next chunk of the full scan
    total_rows,       \* analyze: running row count
    missing_counts,   \* analyze: column -> running missing count
    unique_trackers,  \* analyze: column -> list of distinct values seen
    sample_values,    \* analyze: column -> list of sample values
    duplicate_estimate, \* analyze: the extrapolated duplicate count
    quality_report,   \* analyze: the returned report, or NoReport
    faults,           \* number of absorbed per-column failures injected so far
    raised,           \* analyze: the exception raised at line 178, or NoException
    jobs,             \* the job queue: job id -> job record
    store,            \* the key-value store: key -> [value, ttl], or NoEntry
    writes,           \* history of the progress writes: [job, key, value, ttl]
    progress_data,    \* task-status: what the last poll read under the progress key
    response,         \* the last answer of an endpoint
    request,          \* the Authorization header and the file part last received
    handler,          \* the endpoint whose handler is running the analysis
    blacklist,        \* the tokens of the blacklisted_tokens table
    issued,           \* the tokens the clients were given
    now               \* the clock, in hours

avars == <<apc, sample_size, columns, dtypes, chunk_i, total_rows, missing_counts,
           unique_trackers, sample_values, duplicate_estimate, quality_report, faults,
           raised>>
jvars == <<jobs, store, writes, progress_data, response>>
authvars == <<blacklist, issued, now>>
hvars == <<request, handler, authvars>>
vars == <<fs, chunkSize, avars, jvars, hvars>>

----------------------------------------------------------------------------
(* Bounds of the model *)

\* longest enumerated input of a transform, in lines
MaxRows == 3
\* longest enumerated input of the analysis, in lines
MaxScanRows == 4
\* longest enumerated input of a transform that is run again on its output
MaxRerunRows == 2
\* tokens handed out in one run of the model
MaxTokens == 2
\* the clock runs from 0 to MaxTime hours, in steps of TickHours
MaxTime == 36
TickHours == 12
\* absorbed per-column failures injected into one analysis
MaxFaults == 1
\* the lenient sample read may skip lines among the first MaxSkip
MaxSkip == 2

----------------------------------------------------------------------------
(* Program constants *)

CHUNK_SIZE == 10000
\* nrows of the schema probe of analyze
ProbeRows == 1000
\* only chunks i < TrackedChunks feed the unique trackers
TrackedChunks == 3
\* the cap of a unique tracker, and the "1000+" threshold
UniqueCap == 1000
\* the slice unique_vals[:100] taken from each chunk
UniqueSlice == 100
\* sample values kept per column
SampleCap == 3
\* default sample_size of analyze
DefaultSampleSize == 10000
\* rows > LargeFileRows sets is_large_file
LargeFileRows == 50000

----------------------------------------------------------------------------
(* Small helpers *)

Min(a, b) == IF a < b THEN a ELSE b
Max(a, b) == IF a > b THEN a ELSE b

RECURSIVE SumOver(_, _)
SumOver(f, S) ==
    IF S = {} THEN 0
    ELSE LET x == CHOOSE y \in S : TRUE IN f[x] + SumOver(f, S \ {x})

Range(s) == {s[i] : i \in 1..Len(s)}

\* the subsequence of s at the positions where keep holds, in order
FilterSeq(s, keep) ==
    LET indexed == [i \in 1..Len(s) |-> <<i, s[i]>>]
        kept == SelectSeq(indexed, LAMBDA p : keep[p[1]])
    IN [k \in 1..Len(kept) |-> kept[k][2]]

----------------------------------------------------------------------------
(* Text: sequences of one-character strings *)

UpperCase == <<"A", "B", "C", "D", "E", "F", "G", "H", "I", "J", "K", "L", "M",
               "N", "O", "P", "Q", "R", "S", "T", "U", "V", "W", "X", "Y", "Z">>
LowerCase == <<"a", "b", "c", "d", "e", "f", "g", "h", "i", "j", "k", "l", "m",
               "n", "o", "p", "q", "r", "s", "t", "u", "v", "w", "x", "y", "z">>
Digits == <<"0", "1", "2", "3", "4", "5", "6", "7", "8", "9">>
\* the characters of the model in the order of their codes
Ascii == <<" ", "+", ".">> \o Digits \o UpperCase \o <<"_">> \o LowerCase

IndexIn(seq, c) == CHOOSE i \in 1..Len(seq) : seq[i] = c
IsDigit(c) == \E i \in 1..10 : Digits[i] = c
IsSpace(c) == c = " "

\* str.lower()
LowerChar(c) ==
    IF \E i \in 1..26 : UpperCase[i] = c THEN LowerCase[IndexIn(UpperCase, c)] ELSE c
lower(t) == [i \in 1..Len(t) |-> LowerChar(t[i])]

\* str.strip(): without the leading and the trailing whitespace
strip(t) ==
    LET solid == {i \in 1..Len(t) : ~IsSpace(t[i])}
    IN IF solid = {} THEN <<>>
       ELSE SubSeq(t, CHOOSE i \in solid : \A j \in solid : i <= j,
                      CHOOSE i \in solid : \A j \in solid : i >= j)

\* str.replace(' ', '_')
SpacesToUnderscores(t) == [i \in 1..Len(t) |-> IF t[i] = " " THEN "_" ELSE t[i]]

\* the order of str: by the first character that differs, a prefix first
TextLess(a, b) ==
    \E i \in 1..(Min(Len(a), Len(b)) + 1) :
        /\ \A j \in 1..(i - 1) : a[j] = b[j]
        /\ IF i > Len(a) THEN i <= Len(b)
           ELSE i <= Len(b) /\ IndexIn(Ascii, a[i]) < IndexIn(Ascii, b[i])

----------------------------------------------------------------------------
(* Cells.  Every value a DataFrame cell or a report field holds is a       *)
(* record of one shape, so that any two can be compared.                   *)

NaN == [k |-> "nan", n |-> 0, d |-> 1, s |-> <<>>]
None == [k |-> "none", n |-> 0, d |-> 1, s |-> <<>>]
Str(t) == [k |-> "str", n |-> 0, d |-> 1, s |-> t]
IntV(i) == [k |-> "int", n |-> i, d |-> 1, s |-> <<>>]
\* a float is the fraction n/d in lowest terms
FloatV(n, d) == [k |-> "float", n |-> n, d |-> d, s |-> <<>>]

\* texts the reader takes for a missing value (a part of pandas' default list)
NAMarkers == {<<>>, <<"N", "A">>, <<"n", "a", "n">>}

\* read_csv(..., dtype=str): a cell is NaN or its text
ReadStr(t) == IF t \in NAMarkers THEN NaN ELSE Str(t)

isnull(c) == c.k = "nan"

safe_convert_value(value) ==
    IF isnull(value) THEN None
    ELSE IF value.k = "int" THEN IntV(value.n)
    ELSE IF value.k = "float" THEN FloatV(value.n, value.d)
    ELSE Str(value.s)

----------------------------------------------------------------------------
(* Files and the readers of pandas.read_csv *)

NoFile == [exists |-> FALSE, header |-> <<>>, lines |-> <<>>]
File(h, ls) == [exists |-> TRUE, header |-> h, lines |-> ls]

\* a line the strict reader rejects and the lenient reader skips
BadLine(f, l) == Len(l) > Len(f.header)

\* the text of cell j of a line; a short line is padded with empty cells
CellText(l, j) == IF j <= Len(l) THEN l[j] ELSE <<>>

\* the first nrows lines of f (all of them when nrows is NoLimit)
NoLimit == 0 - 1
Prefix(f, nrows) ==
    IF nrows = NoLimit THEN f.lines ELSE SubSeq(f.lines, 1, Min(nrows, Len(f.lines)))

\* a file without a data line taken for a file without a header
ReadError_nodata(f, ls) ==
    IF ~f.exists THEN "FileNotFoundError"
    ELSE IF f.header = <<>> \/ f.lines = <<>> THEN "EmptyDataError"
    ELSE IF \E i \in 1..Len(ls) : BadLine(f, ls[i]) THEN "ParserError"
    ELSE "ok"

\* what a strict read of the given lines raises, or "ok"
ReadError(f, ls) ==
    IF ~f.exists THEN "FileNotFoundError"
    ELSE IF f.header = <<>> THEN "EmptyDataError"
    ELSE IF \E i \in 1..Len(ls) : BadLine(f, ls[i]) THEN "ParserError"
    ELSE "ok"

\* the rows of a DataFrame read with dtype=str from the given lines
StrRows(f, ls) ==
    [i \in 1..Len(ls) |-> [j \in 1..Len(f.header) |-> ReadStr(CellText(ls[i], j))]]

\* the number of chunks read_csv(chunksize=N) yields: a file with a header and
\* no data line yields one empty chunk
NumChunks(f, N) ==
    IF Len(f.lines) = 0 THEN 1 ELSE (Len(f.lines) + N - 1) \div N

\* batches that leave out their last line
ChunkLines_exclusive(f, i, N) ==
    SubSeq(f.lines, i * N + 1, Min((i + 1) * N, Len(f.lines)) - 1)

\* the lines of chunk i (from 0) of the chunked reader
ChunkLines(f, i, N) == SubSeq(f.lines, i * N + 1, Min((i + 1) * N, Len(f.lines)))

\* column j of the rows of a DataFrame, as a sequence of cells
Column(rows, j) == [i \in 1..Len(rows) |-> rows[i][j]]

\* Series.dropna()
dropna_series(s) == FilterSeq(s, [i \in 1..Len(s) |-> ~isnull(s[i])])

\* Series.unique(): the distinct values in order of first appearance
unique(s) ==
    FilterSeq(s, [i \in 1..Len(s) |-> \A j \in 1..(i - 1) : s[j] # s[i]])

\* DataFrame.duplicated().sum(): rows equal to an earlier row
DuplicatedCount(rows) == Len(rows) - Cardinality(Range(rows))

----------------------------------------------------------------------------
(* analyze_csv_quality_chunked(file_path, sample_size)                     *)

\* the path of the analysed upload
APath == <<"u1", ".csv">>

NoReport == [status |-> "none"]
NoException == [type |-> "none", message |-> "none"]
\* lines 177-178: whatever the analysis raises leaves it as a plain Exception
\* with the text of the original one
Raise(e) == [type |-> "Exception", message |-> e]
Cols == Range(columns)
ColIndex(col) == CHOOSE j \in 1..Len(columns) : columns[j] = col

\* the steps of one column in one chunk that can fail and be absorbed
FaultSteps == {"missing", "unique", "sample"}
NoFault == [col |-> <<>>, step |-> "none"]
Faulty(fault, col, step) == fault.col = col /\ fault.step = step

\* lines 78-93: the schema probe, the dtype labels and the empty accumulators
AnalyzeProbe ==
    /\ apc = "start"
    /\ LET f == fs[APath]
           err == ReadError(f, Prefix(f, ProbeRows))
       IN IF err # "ok"
          THEN /\ apc' = "raised"
               /\ raised' = Raise(err)
               /\ UNCHANGED <<columns, dtypes, missing_counts, unique_trackers,
                              sample_values>>
          ELSE /\ apc' = "scan"
               /\ raised' = raised
               /\ columns' = f.header
               /\ dtypes' = [c \in Range(f.header) |-> "object"]
               /\ missing_counts' = [c \in Range(f.header) |-> 0]
               /\ unique_trackers' = [c \in Range(f.header) |-> <<>>]
               /\ sample_values' = [c \in Range(f.header) |-> <<>>]
    /\ UNCHANGED <<hvars, fs, chunkSize, sample_size, chunk_i, total_rows,
                   duplicate_estimate, quality_report, faults, jvars>>

\* line 104: the missing cells of one column of a chunk
MissingIn(s) == Cardinality({i \in 1..Len(s) : isnull(s[i])})

\* lines 113-116: append the converted values not yet tracked
RECURSIVE TrackUnique(_, _, _)
TrackUnique(tracker, vals, i) ==
    IF i > Len(vals) THEN tracker
    ELSE LET val_safe == safe_convert_value(vals[i])
         IN TrackUnique(IF val_safe \in Range(tracker) THEN tracker
                        ELSE Append(tracker, val_safe), vals, i + 1)

\* lines 109-119: the unique tracker of a column after chunk i
UniqueAfter(tracker, s, i) ==
    IF i < TrackedChunks /\ Len(tracker) < UniqueCap
    THEN LET unique_vals == unique(dropna_series(s))
         IN TrackUnique(tracker, SubSeq(unique_vals, 1, Min(UniqueSlice, Len(unique_vals))), 1)
    ELSE tracker

\* lines 122-129: the sample values of a column after a chunk
RECURSIVE TakeSamples(_, _, _)
TakeSamples(have, samples, i) ==
    IF i > Len(samples) THEN have
    ELSE TakeSamples(IF Len(have) < SampleCap
                     THEN Append(have, safe_convert_value(samples[i])) ELSE have,
                     samples, i + 1)
SamplesAfter(have, s) ==
    IF Len(have) < SampleCap
    THEN LET d == dropna_series(s)
         IN TakeSamples(have, SubSeq(d, 1, Min(3, Len(d))), 1)
    ELSE have

\* the row count overwritten by each chunk instead of accumulated
CountRows_overwrite(total, chunk) == Len(chunk)

\* line 99
CountRows(total, chunk) == total + Len(chunk)

\* lines 98-129: one iteration of the full scan; a bad line in the chunk ends
\* the analysis with the exception of line 178
AnalyzeChunk ==
    /\ apc = "scan"
    /\ chunk_i < NumChunks(fs[APath], chunkSize)
    /\ LET f == fs[APath]
           ls == ChunkLines(f, chunk_i, chunkSize)
           chunk == StrRows(f, ls)
       IN IF ReadError(f, ls) # "ok"
          THEN /\ apc' = "raised"
               /\ raised' = Raise(ReadError(f, ls))
               /\ UNCHANGED <<chunk_i, total_rows, missing_counts, unique_trackers,
                              sample_values, faults>>
          ELSE \E counted \in {[c \in Cols |-> MissingIn(Column(chunk, ColIndex(c)))]},
                  tracked \in {[c \in Cols |->
                                 UniqueAfter(unique_trackers[c], Column(chunk, ColIndex(c)),
                                             chunk_i)]},
                  sampled \in {[c \in Cols |->
                                 SamplesAfter(sample_values[c], Column(chunk, ColIndex(c)))]},
                  fault \in {NoFault} \cup
                            {x \in [col : Cols, step : FaultSteps] : faults < MaxFaults} :
               /\ faults' = IF fault = NoFault THEN faults ELSE faults + 1
               /\ raised' = raised
               /\ total_rows' = CountRows(total_rows, chunk)
               /\ missing_counts' =
                    [c \in Cols |->
                        IF Faulty(fault, c, "missing") THEN missing_counts[c]
                        ELSE missing_counts[c] + counted[c]]
               /\ unique_trackers' =
                    [c \in Cols |->
                        IF Faulty(fault, c, "unique") THEN unique_trackers[c] ELSE tracked[c]]
               /\ sample_values' =
                    [c \in Cols |->
                        IF Faulty(fault, c, "sample") THEN sample_values[c] ELSE sampled[c]]
               /\ chunk_i' = chunk_i + 1
               /\ apc' = IF chunk_i + 1 = NumChunks(f, chunkSize) THEN "dup" ELSE "scan"
    /\ UNCHANGED <<hvars, fs, chunkSize, sample_size, columns, dtypes, duplicate_estimate,
                   quality_report, jvars>>

\* the sample's duplicates scaled by the row count, not by the ratio
Extrapolate_unscaled(dups, total, n) == dups * total

\* line 138: int(duplicates * (total_rows / max(len(sample_df), 1))); the float
\* product is taken as the exact quotient, truncated
Extrapolate(dups, total, n) == (dups * total) \div Max(n, 1)

\* the lines the lenient reader keeps: bad lines are skipped, and so are the
\* lines at the positions in skipped (lines the python engine alone rejects)
LenientLines(f, ls, skipped) ==
    FilterSeq(ls, [i \in 1..Len(ls) |-> ~BadLine(f, ls[i]) /\ i \notin skipped])

\* lines 131-140: the duplicate estimate from a lenient sample read; a negative
\* nrows, or any failure of the read, gives the estimate 0
AnalyzeDuplicates ==
    /\ apc = "dup"
    /\ LET f == fs[APath]
           nrows == Min(sample_size, total_rows)
       IN \/ duplicate_estimate' = 0
          \/ /\ nrows >= 0
             /\ \E skipped \in SUBSET (1..Min(nrows, MaxSkip)) :
                  LET sample_df == StrRows(f, LenientLines(f, Prefix(f, nrows), skipped))
                  IN duplicate_estimate' =
                        Extrapolate(DuplicatedCount(sample_df), total_rows, Len(sample_df))
    /\ apc' = "assemble"
    /\ UNCHANGED <<hvars, fs, chunkSize, sample_size, columns, dtypes, chunk_i, total_rows,
                   missing_counts, unique_trackers, sample_values, quality_report,
                   faults, raised, jvars>>

\* round(float(part / whole * 100), 2), in hundredths of a percent
Percentage(part, whole) == (part * 20000 + whole) \div (2 * whole)

CapSentinel == Str(<<"1", "0", "0", "0", "+">>)

\* line 162
UniqueValuesField(unique_count) ==
    IF unique_count < UniqueCap THEN IntV(unique_count) ELSE CapSentinel

\* lines 157-164: the entry of a column
ColumnEntry(col) ==
    [dtype |-> dtypes[col],
     missing_count |-> missing_counts[col],
     missing_percentage |->
        IF total_rows > 0 THEN Percentage(missing_counts[col], total_rows) ELSE 0,
     unique_values |-> UniqueValuesField(Len(unique_trackers[col])),
     sample_values |-> SubSeq(sample_values[col], 1, Min(3, Len(sample_values[col])))]

\* lines 167-173: the entry of a column whose analysis failed
FallbackEntry ==
    [dtype |-> "unknown", missing_count |-> 0, missing_percentage |-> 0,
     unique_values |-> IntV(0), sample_values |-> <<>>]

\* line 133
TotalMissing == SumOver(missing_counts, Cols)

\* lines 131-175: the report; the entries of the columns in failed are the
\* fallback (memory_usage, the size of the file on disk, is left out)
AnalyzeAssemble ==
    /\ apc = "assemble"
    /\ \E failed \in SUBSET Cols :
        /\ Cardinality(failed) <= MaxFaults - faults
        /\ faults' = faults + Cardinality(failed)
        /\ quality_report' =
            [status |-> "ok",
             total_rows |-> total_rows,
             total_columns |-> Len(columns),
             total_cells |-> total_rows * Len(columns),
             missing_cells |-> TotalMissing,
             missing_percentage |->
                IF total_rows * Len(columns) > 0
                THEN Percentage(TotalMissing, total_rows * Len(columns)) ELSE 0,
             duplicate_rows |-> duplicate_estimate,
             is_large_file |-> total_rows > LargeFileRows,
             column_analysis |->
                [c \in Cols |-> IF c \in failed THEN FallbackEntry ELSE ColumnEntry(c)]]
    /\ apc' = "done"
    /\ UNCHANGED <<hvars, fs, chunkSize, sample_size, columns, dtypes, chunk_i, total_rows,
                   missing_counts, unique_trackers, sample_values, duplicate_estimate,
                   raised, jvars>>

----------------------------------------------------------------------------
(* The inputs of the analysis *)

\* the decimal text of a positive number
Digit(d) == Digits[d + 1]
RECURSIVE DecimalText(_)
DecimalText(n) ==
    IF n < 10 THEN <<Digit(n)>> ELSE Append(DecimalText(n \div 10), Digit(n % 10))

HeaderAB == << <<"a">>, <<"b">> >>
Line12 == << <<"1">>, <<"2">> >>
Line3_ == << <<"3">>, <<>> >>
Line56 == << <<"5">>, <<"6">> >>
LineWide == << <<"7">>, <<"8">>, <<"9">> >>

\* all sequences over S of length at most n
SeqsUpTo(S, n) == UNION {[1..k -> S] : k \in 0..n}

\* a first data line wider than the header would be read as an index column
\* followed by the cells: such files are left out
FirstLineFits(ls) == Len(ls) = 0 \/ Len(ls[1]) <= 2

\* the empty file: no header, no line
EmptyFile == File(<<>>, <<>>)

\* a file whose first column holds BigRows distinct values
BigRows == 2000
BigFile == File(HeaderAB, [i \in 1..BigRows |-> <<DecimalText(i), <<"x">>>>])

\* three data rows, one of them with a missing cell
ThreeRows == File(HeaderAB, <<Line12, Line3_, Line56>>)

AnalyzeFiles ==
    {File(HeaderAB, ls) : ls \in {x \in SeqsUpTo({Line12, Line3_, LineWide}, MaxScanRows) :
                                      FirstLineFits(x)}}
    \cup {EmptyFile, ThreeRows, BigFile}

\* the batch sizes the chunked reader is run with
ChunkSizes == {1, 2, CHUNK_SIZE}
SampleSizes == {0 - 1, 0, 2, DefaultSampleSize}

Paths == {APath, <<"u1", "_processed", ".csv">>, <<"u2", ".csv">>,
          <<"u2", "_processed", ".csv">>}

InitAnalyze ==
    /\ \E f \in AnalyzeFiles : fs = [p \in Paths |-> IF p = APath THEN f ELSE NoFile]
    /\ chunkSize \in ChunkSizes
    /\ sample_size \in SampleSizes
    \* the big file is analysed as the program runs it
    /\ fs[APath] = BigFile => chunkSize = CHUNK_SIZE /\ sample_size = DefaultSampleSize
    /\ apc = "start"
    /\ columns = <<>>
    /\ dtypes = <<>>
    /\ chunk_i = 0
    /\ total_rows = 0
    /\ missing_counts = <<>>
    /\ unique_trackers = <<>>
    /\ sample_values = <<>>
    /\ duplicate_estimate = 0
    /\ quality_report = NoReport
    /\ faults = 0
    /\ raised = NoException
    /\ jobs = <<>>
    /\ store = <<>>
    /\ writes = <<>>
    /\ progress_data = <<>>
    /\ response = [status |-> "none"]
    /\ request = [status |-> "none"]
    /\ handler = "none"
    /\ blacklist = {}
    /\ issued = {}
    /\ now = 0

NextAnalyze ==
    \/ AnalyzeProbe
    \/ AnalyzeChunk
    \/ AnalyzeDuplicates
    \/ AnalyzeAssemble

SpecAnalyze == InitAnalyze /\ [][NextAnalyze]_vars

----------------------------------------------------------------------------
(* Claims about the analysis, checked under SpecAnalyze *)

AnalyzedFile == fs[APath]
Report == quality_report
Analyzed == apc = "done"

\* C1: the total_rows of a report equals the number of data rows of the file,
\* whatever the batch size of the full scan; during the scan the running count
\* is the number of rows of the batches read so far.
C1_TotalRowsExact ==
    /\ apc = "scan" => total_rows = Min(chunk_i * chunkSize, Len(AnalyzedFile.lines))
    /\ Analyzed => Report.total_rows = Len(AnalyzedFile.lines)

\* C1 witness: a report on a three-row file scanned in batches of one row
C1_Witness ==
    Analyzed /\ chunkSize = 1 /\ chunk_i = 3 /\ Report.total_rows = 3

\* C2: in every report the missing counts of the columns add up to
\* missing_cells, also when a column entry is the fallback.
C2_MissingCountsAddUp ==
    Analyzed =>
        SumOver([c \in Cols |-> Report.column_analysis[c].missing_count], Cols)
            = Report.missing_cells

\* the distinct non-missing values column j of the file holds
DistinctInColumn(f, j) ==
    Cardinality({ReadStr(CellText(f.lines[i], j)) : i \in 1..Len(f.lines)} \ {NaN})

\* C3: without any absorbed failure, a column holding more distinct values than
\* the cap is reported with the "1000+" sentinel, and no unique_values field is
\* a number at or above the cap.
C3_CapSentinel ==
    Analyzed /\ faults = 0 =>
        \A j \in 1..Len(columns) :
            LET field == Report.column_analysis[columns[j]].unique_values
            IN /\ DistinctInColumn(AnalyzedFile, j) > UniqueCap => field = CapSentinel
               /\ field.k = "int" => field.n < UniqueCap

\* C4: the duplicate estimate is never negative and never above total_rows.
C4_DuplicateEstimateInRange ==
    /\ apc \in {"assemble", "done"} =>
            0 <= duplicate_estimate /\ duplicate_estimate <= total_rows
    /\ Analyzed => 0 <= Report.duplicate_rows /\ Report.duplicate_rows <= Report.total_rows

\* C4 witness: a sample of two rows of three holds a duplicate, extrapolated
C4_Witness ==
    /\ Analyzed
    /\ sample_size = 2
    /\ Report.total_rows = 3
    /\ Report.duplicate_rows = 1

\* a file with a header row and no data row
HeaderOnly(f) == f.exists /\ f.header # <<>> /\ f.lines = <<>>

\* C11: the analysis of a file with a header row and no data row does not
\* fail and is not stuck in its scan; its report lists every column of the
\* header, and total_rows, total_cells, missing_cells, duplicate_rows, every
\* missing_count and every percentage of it are 0.
C11_HeaderOnlyReport ==
    HeaderOnly(AnalyzedFile) =>
        /\ apc # "raised"
        /\ apc = "scan" => chunk_i < NumChunks(AnalyzedFile, chunkSize)
        /\ Analyzed =>
            /\ Report.status = "ok"
            /\ Report.total_columns = Len(AnalyzedFile.header)
            /\ DOMAIN Report.column_analysis = Range(AnalyzedFile.header)
            /\ Report.total_rows = 0
            /\ Report.total_cells = 0
            /\ Report.missing_cells = 0
            /\ Report.missing_percentage = 0
            /\ Report.duplicate_rows = 0
            /\ \A c \in Range(AnalyzedFile.header) :
                    /\ Report.column_analysis[c].missing_count = 0
                    /\ Report.column_analysis[c].missing_percentage = 0

\* C11 witness: the report on a header-only file, after the one empty batch of
\* the full scan and a sample read of zero rows
C11_Witness ==
    /\ HeaderOnly(AnalyzedFile)
    /\ Analyzed
    /\ chunk_i = 1
    /\ sample_size = DefaultSampleSize
    /\ DOMAIN Report.column_analysis = {<<"a">>, <<"b">>}

----------------------------------------------------------------------------
(* Typed DataFrames: read_csv without dtype=str infers a dtype per column  *)
(* of the lines it reads (per chunk, in a chunked read).  The number       *)
(* literals of the model are unsigned: digits, or digits "." digits.       *)

RECURSIVE GCD(_, _)
GCD(a, b) == IF b = 0 THEN a ELSE GCD(b, a % b)
Fraction(n, d) == LET g == GCD(n, d) IN FloatV(n \div g, d \div g)

RECURSIVE Pow10(_)
Pow10(k) == IF k = 0 THEN 1 ELSE 10 * Pow10(k - 1)

RECURSIVE DigitsValue(_)
DigitsValue(u) ==
    IF Len(u) = 0 THEN 0
    ELSE 10 * DigitsValue(SubSeq(u, 1, Len(u) - 1)) + (IndexIn(Digits, u[Len(u)]) - 1)

IsIntText(u) == Len(u) > 0 /\ \A i \in 1..Len(u) : IsDigit(u[i])
IsFloatText(u) ==
    \E p \in 2..(Len(u) - 1) :
        /\ u[p] = "."
        /\ IsIntText(SubSeq(u, 1, p - 1))
        /\ IsIntText(SubSeq(u, p + 1, Len(u)))
\* the parsers skip the whitespace around a number
IsNumberText(t) == IsIntText(strip(t)) \/ IsFloatText(strip(t))
NumberOf(t) ==
    LET u == strip(t)
    IN IF IsIntText(u) THEN IntV(DigitsValue(u))
       ELSE LET p == CHOOSE q \in 2..(Len(u) - 1) : u[q] = "."
                frac == SubSeq(u, p + 1, Len(u))
            IN Fraction(DigitsValue(SubSeq(u, 1, p - 1)) * Pow10(Len(frac))
                            + DigitsValue(frac), Pow10(Len(frac)))

AsFloat(c) == IF c.k = "int" THEN FloatV(c.n, 1) ELSE c

\* the dtype and the cells read_csv gives a column from its cell texts
InferColumn(texts) ==
    LET present == {i \in 1..Len(texts) : texts[i] \notin NAMarkers}
    IN IF Len(texts) = 0 THEN [dtype |-> "object", cells |-> <<>>]
       ELSE IF \A i \in present : IsNumberText(texts[i])
       THEN IF present = 1..Len(texts) /\ \A i \in present : IsIntText(strip(texts[i]))
            THEN [dtype |-> "int64", cells |-> [i \in 1..Len(texts) |-> NumberOf(texts[i])]]
            ELSE [dtype |-> "float64",
                  cells |-> [i \in 1..Len(texts) |->
                                IF i \in present THEN AsFloat(NumberOf(texts[i])) ELSE NaN]]
       ELSE [dtype |-> "object", cells |-> [i \in 1..Len(texts) |-> ReadStr(texts[i])]]

\* a DataFrame: the column names, the dtype of each column, the rows
Frame(cols, dts, rows) == [columns |-> cols, dtypes |-> dts, rows |-> rows]

\* the DataFrame of a typed read of the given lines of f
ReadTyped(f, ls) ==
    LET W == Len(f.header)
        col == [j \in 1..W |-> InferColumn([i \in 1..Len(ls) |-> CellText(ls[i], j)])]
    IN Frame(f.header, [j \in 1..W |-> col[j].dtype],
             [i \in 1..Len(ls) |-> [j \in 1..W |-> col[j].cells[i]]])

\* only a row equal to the row right before it is dropped
drop_duplicates_adjacent(df) ==
    Frame(df.columns, df.dtypes,
          FilterSeq(df.rows, [i \in 1..Len(df.rows) |-> i = 1 \/ df.rows[i] # df.rows[i - 1]]))

\* DataFrame.drop_duplicates(): the first occurrence of every row is kept
drop_duplicates(df) == Frame(df.columns, df.dtypes, unique(df.rows))

\* DataFrame.dropna(): the rows without a missing cell
dropna(df) ==
    Frame(df.columns, df.dtypes,
          FilterSeq(df.rows, [i \in 1..Len(df.rows) |->
                                 \A j \in 1..Len(df.columns) : ~isnull(df.rows[i][j])]))

----------------------------------------------------------------------------
(* apply_preprocessing_options(df, options)                                *)

IsNumeric(dtype) == dtype \in {"int64", "float64"}

NumLess(a, b) == a.n * b.d < b.n * a.d
NumAdd(a, b) == Fraction(a.n * b.d + b.n * a.d, a.d * b.d)
RECURSIVE NumSum(_, _)
NumSum(s, i) == IF i > Len(s) THEN FloatV(0, 1) ELSE NumAdd(s[i], NumSum(s, i + 1))

\* Series.mean() and Series.median() of the values present; NaN when there are none
mean(s) ==
    LET v == dropna_series(s)
    IN IF Len(v) = 0 THEN NaN
       ELSE LET t == NumSum(v, 1) IN Fraction(t.n, t.d * Len(v))
median(s) ==
    LET v == SortSeq(dropna_series(s), NumLess)
        h == (Len(v) + 1) \div 2
    IN IF Len(v) = 0 THEN NaN
       ELSE IF Len(v) % 2 = 1 THEN AsFloat(v[h])
       ELSE LET t == NumAdd(v[h], v[h + 1]) IN Fraction(t.n, t.d * 2)

\* the order Series.mode() sorts its values by
ValueLess(a, b) == IF a.k = "str" THEN TextLess(a.s, b.s) ELSE NumLess(a, b)

\* Series.mode(): the most frequent values present, sorted
mode(s) ==
    LET v == dropna_series(s)
        Count(x) == Cardinality({i \in 1..Len(v) : v[i] = x})
        top == {x \in Range(v) : \A y \in Range(v) : Count(y) <= Count(x)}
    IN SortSeq(unique(FilterSeq(v, [i \in 1..Len(v) |-> v[i] \in top])), ValueLess)

\* Series.fillna(value)
fillna(s, value) == [i \in 1..Len(s) |-> IF isnull(s[i]) THEN value ELSE s[i]]

\* a column of a DataFrame: its dtype and its cells
Col(dtype, cells) == [dtype |-> dtype, cells |-> cells]
ColumnOf(df, j) == Col(df.dtypes[j], Column(df.rows, j))

\* df with every column j replaced by change(df, j); the loops over the columns
\* change one column at a time and read no other column
MapColumns(df, change(_, _)) ==
    LET col == [j \in 1..Len(df.columns) |-> change(df, j)]
    IN Frame(df.columns, [j \in 1..Len(df.columns) |-> col[j].dtype],
             [i \in 1..Len(df.rows) |-> [j \in 1..Len(df.columns) |-> col[j].cells[i]]])

\* lines 263-266 and 267-270: numeric columns take their own mean or median
FillMeanColumn(df, j) ==
    IF IsNumeric(df.dtypes[j])
    THEN Col(df.dtypes[j], fillna(Column(df.rows, j), mean(Column(df.rows, j))))
    ELSE ColumnOf(df, j)
FillMedianColumn(df, j) ==
    IF IsNumeric(df.dtypes[j])
    THEN Col(df.dtypes[j], fillna(Column(df.rows, j), median(Column(df.rows, j))))
    ELSE ColumnOf(df, j)

\* lines 271-276: a column with a missing cell takes its first mode, if it has one
FillModeColumn(df, j) ==
    LET s == Column(df.rows, j)
        mode_value == mode(s)
    IN IF (\E i \in 1..Len(s) : isnull(s[i])) /\ Len(mode_value) > 0
       THEN Col(df.dtypes[j], fillna(s, mode_value[1]))
       ELSE ColumnOf(df, j)

\* lines 260-276
HandleMissing(df, options) ==
    CASE options.handle_missing = "drop" -> dropna(df)
      [] options.handle_missing = "fill_mean" -> MapColumns(df, FillMeanColumn)
      [] options.handle_missing = "fill_median" -> MapColumns(df, FillMedianColumn)
      [] options.handle_missing = "fill_mode" -> MapColumns(df, FillModeColumn)
      [] OTHER -> df

\* astype(str) of a cell of an object column: a missing cell becomes "nan"
astype_str(c) == IF isnull(c) THEN Str(<<"n", "a", "n">>) ELSE c

\* lines 279-281: the object columns are turned to text and stripped
TrimColumn(df, j) ==
    IF df.dtypes[j] = "object"
    THEN Col("object", [i \in 1..Len(df.rows) |-> Str(strip(astype_str(df.rows[i][j]).s))])
    ELSE ColumnOf(df, j)

\* what pd.to_numeric makes of a cell, or Unparsed
Unparsed == [k |-> "unparsed", n |-> 0, d |-> 1, s |-> <<>>]
to_numeric_cell(c) ==
    IF c.k # "str" THEN c
    ELSE IF strip(c.s) = <<>> \/ lower(strip(c.s)) = <<"n", "a", "n">> THEN NaN
    ELSE IF IsNumberText(c.s) THEN NumberOf(c.s)
    ELSE Unparsed

\* lines 285-289: a column is converted when every cell of it parses
ConvertColumn(df, j) ==
    LET cells == [i \in 1..Len(df.rows) |-> to_numeric_cell(df.rows[i][j])]
    IN IF IsNumeric(df.dtypes[j]) \/ \E i \in 1..Len(cells) : cells[i] = Unparsed
       THEN ColumnOf(df, j)
       ELSE IF \A i \in 1..Len(cells) : cells[i].k = "int"
       THEN Col("int64", cells)
       ELSE Col("float64", [i \in 1..Len(cells) |-> AsFloat(cells[i])])

\* lines 257-291
apply_preprocessing_options(df, options) ==
    LET filled == HandleMissing(df, options)
        trimmed == IF options.trim_whitespace THEN MapColumns(filled, TrimColumn)
                   ELSE filled
    IN IF options.convert_types THEN MapColumns(trimmed, ConvertColumn) ELSE trimmed

----------------------------------------------------------------------------
(* DataFrame.to_csv *)

\* the digits of r/d after the point, at most k of them, without trailing zeros
RECURSIVE FractionDigits(_, _, _)
FractionDigits(r, d, k) ==
    IF r = 0 \/ k = 0 THEN <<>>
    ELSE <<Digit((r * 10) \div d)>> \o FractionDigits((r * 10) % d, d, k - 1)

\* the digits a float is written with after the point
FloatDigits == 16

\* the text to_csv writes for a cell
CellToText(c) ==
    CASE c.k = "str" -> c.s
      [] c.k = "int" -> DecimalText(c.n)
      [] c.k = "float" ->
            DecimalText(c.n \div c.d) \o <<".">> \o
            (IF c.n % c.d = 0 THEN <<"0">> ELSE FractionDigits(c.n % c.d, c.d, FloatDigits))
      [] OTHER -> <<>>

\* the lines to_csv writes for the rows of df
CsvLines(df) ==
    [i \in 1..Len(df.rows) |-> [j \in 1..Len(df.columns) |-> CellToText(df.rows[i][j])]]

\* to_csv(path, index=False, mode='w'): the header and the rows replace the file
WriteCsv(df) == File(df.columns, CsvLines(df))

\* an append that writes the header again, as a line before the rows
AppendCsv_withheader(old, df) == File(old.header, old.lines \o <<df.columns>> \o CsvLines(df))

\* to_csv(path, index=False, mode='a', header=False): the rows are appended
AppendCsv(old, df) == File(old.header, old.lines \o CsvLines(df))

----------------------------------------------------------------------------
(* preprocess_csv_task_chunked(file_path, options): one job of the queue   *)

\* nrows of the column probe of the transform
TransformProbeRows == 100
\* the expiry of a progress record, in seconds
ProgressTTL == 300

\* file_path.replace('.csv', '_processed.csv'), on a path cut into its pieces
RECURSIVE OutputPath(_)
OutputPath(path) ==
    IF Len(path) = 0 THEN <<>>
    ELSE (IF Head(path) = ".csv" THEN <<"_processed", ".csv">> ELSE <<Head(path)>>)
         \o OutputPath(Tail(path))

\* f"progress:{file_path}"
ProgressKey(file_path) == <<"progress:">> \o file_path

\* col.strip().lower().replace(' ', '_')
StandardizeName(col) == SpacesToUnderscores(lower(strip(col)))

NoEntry == [exists |-> FALSE, value |-> 0, ttl |-> 0]
Entry(v, ttl) == [exists |-> TRUE, value |-> v, ttl |-> ttl]

NoResult == [status |-> "none"]
NoResponse == [code |-> 0, body |-> [status |-> "none"]]

\* a job as enqueued
NewJob(file_path, options) ==
    [file_path |-> file_path, options |-> options, pc |-> "queued",
     columns |-> <<>>, total_rows_processed |-> 0, is_first_chunk |-> TRUE,
     chunk_num |-> 0, result |-> NoResult]

\* the handler letting the exception through to the worker
Caught_reraise(e) == [pc |-> "failed", result |-> NoResult]

\* lines 251-255: any exception ends the task with an error result
Caught(e) == [pc |-> "finished", result |-> [status |-> "error", error |-> e]]

Fail(j, e) ==
    jobs' = [jobs EXCEPT ![j].pc = Caught(e).pc, ![j].result = Caught(e).result]

\* lines 183-193: the column probe and the standardized names
TaskProbe(j) ==
    /\ jobs[j].pc = "queued"
    /\ LET f == fs[jobs[j].file_path]
           err == ReadError(f, Prefix(f, TransformProbeRows))
       IN IF err # "ok" THEN Fail(j, err)
          ELSE jobs' = [jobs EXCEPT
                 ![j].pc = IF jobs[j].options.remove_duplicates THEN "whole" ELSE "stream",
                 ![j].columns = IF jobs[j].options.standardize_columns
                                THEN [i \in 1..Len(f.header) |-> StandardizeName(f.header[i])]
                                ELSE f.header]
    /\ UNCHANGED <<hvars, fs, chunkSize, avars, store, writes, progress_data, response>>

\* lines 209-215
WholeResult(output_path, df, original_rows, total_rows_processed) ==
    [status |-> "success", output_path |-> output_path,
     rows_processed |-> total_rows_processed,
     rows_removed |-> original_rows - total_rows_processed,
     columns |-> df.columns]

\* lines 196-215: the whole file is loaded, its duplicate rows are dropped, the
\* options are applied and the table is written once
TaskWhole(j) ==
    /\ jobs[j].pc = "whole"
    /\ LET job == jobs[j]
           f == fs[job.file_path]
           output_path == OutputPath(job.file_path)
       IN IF ReadError(f, f.lines) # "ok"
          THEN Fail(j, ReadError(f, f.lines)) /\ UNCHANGED fs
          ELSE \E loaded \in {ReadTyped(f, f.lines)} :
               \E deduped \in {drop_duplicates(loaded)} :
               \E df \in {apply_preprocessing_options(deduped, job.options)} :
               \E fail \in {"none", "options", "write"} :
               LET total_rows_processed == Len(deduped.rows)
               IN CASE fail = "options" -> Fail(j, "OptionsError") /\ UNCHANGED fs
                    [] fail = "write" -> Fail(j, "OSError") /\ UNCHANGED fs
                    [] OTHER ->
                        /\ fs' = [fs EXCEPT ![output_path] = WriteCsv(df)]
                        /\ jobs' = [jobs EXCEPT
                              ![j].pc = "finished",
                              ![j].total_rows_processed = total_rows_processed,
                              ![j].result = WholeResult(output_path, df, Len(loaded.rows),
                                                        total_rows_processed)]
    /\ UNCHANGED <<hvars, chunkSize, avars, store, writes, progress_data, response>>

\* the count of the last batch instead of the running total
RunningTotal_last(total_rows_processed, chunk) == Len(chunk.rows)

\* line 235
RunningTotal(total_rows_processed, chunk) == total_rows_processed + Len(chunk.rows)

\* lines 238-242: the progress record of a job
ProgressWrite(j, total_rows_processed) ==
    [job |-> j, key |-> ProgressKey(jobs[j].file_path), value |-> total_rows_processed,
     ttl |-> ProgressTTL]

\* lines 220-242: one batch is read, renamed, processed and written, and the
\* progress record is overwritten.  A failure of the options, of opening the
\* output or of the store ends the task where it stands.
TaskChunk(j) ==
    /\ jobs[j].pc = "stream"
    /\ jobs[j].chunk_num < NumChunks(fs[jobs[j].file_path], chunkSize)
    /\ LET job == jobs[j]
           f == fs[job.file_path]
           output_path == OutputPath(job.file_path)
           ls == ChunkLines(f, job.chunk_num, chunkSize)
       IN IF ReadError(f, ls) # "ok"
          THEN Fail(j, ReadError(f, ls)) /\ UNCHANGED <<fs, store, writes>>
          ELSE \E read \in {ReadTyped(f, ls)} :
               \E renamed \in {IF job.options.standardize_columns
                                THEN Frame(job.columns, read.dtypes, read.rows) ELSE read} :
               \E chunk \in {apply_preprocessing_options(renamed, job.options)} :
               \E fail \in {"none", "options", "write", "progress"} :
               LET written == IF job.is_first_chunk THEN WriteCsv(chunk)
                              ELSE AppendCsv(fs[output_path], chunk)
                   total == RunningTotal(job.total_rows_processed, chunk)
                   w == ProgressWrite(j, total)
               IN CASE fail = "options" ->
                        Fail(j, "OptionsError") /\ UNCHANGED <<fs, store, writes>>
                    [] fail = "write" ->
                        Fail(j, "OSError") /\ UNCHANGED <<fs, store, writes>>
                    [] fail = "progress" ->
                        /\ fs' = [fs EXCEPT ![output_path] = written]
                        /\ jobs' = [jobs EXCEPT
                              ![j].is_first_chunk = FALSE,
                              ![j].total_rows_processed = total,
                              ![j].pc = Caught("ConnectionError").pc,
                              ![j].result = Caught("ConnectionError").result]
                        /\ UNCHANGED <<store, writes>>
                    [] OTHER ->
                        /\ fs' = [fs EXCEPT ![output_path] = written]
                        /\ jobs' = [jobs EXCEPT
                              ![j].is_first_chunk = FALSE,
                              ![j].total_rows_processed = total,
                              ![j].chunk_num = job.chunk_num + 1]
                        /\ store' = [store EXCEPT ![w.key] = Entry(w.value, w.ttl)]
                        /\ writes' = Append(writes, w)
    /\ UNCHANGED <<hvars, chunkSize, avars, progress_data, response>>

\* lines 244-249
StreamResult(output_path, total_rows_processed, cols) ==
    [status |-> "success", output_path |-> output_path,
     rows_processed |-> total_rows_processed, columns |-> cols]

\* lines 244-249: after the last batch the task returns its result
TaskReturn(j) ==
    /\ jobs[j].pc = "stream"
    /\ jobs[j].chunk_num = NumChunks(fs[jobs[j].file_path], chunkSize)
    /\ jobs' = [jobs EXCEPT
          ![j].pc = "finished",
          ![j].result = StreamResult(OutputPath(jobs[j].file_path),
                                     jobs[j].total_rows_processed, jobs[j].columns)]
    /\ UNCHANGED <<hvars, fs, chunkSize, avars, store, writes, progress_data, response>>

----------------------------------------------------------------------------
(* Requests, tokens and the two token_required decorators                  *)

\* the lifetime of a token, in hours
TOKEN_EXPIRY_HOURS == 24
\* the users of the users table
Users == {1}

\* jwt.encode(payload, SECRET_KEY): a token of the user that expires at exp;
\* both controllers are run with the same SECRET_KEY
Token(user_id, exp) == [user_id |-> user_id, exp |-> exp, signed |-> TRUE]
NoToken == [user_id |-> 0, exp |-> 0, signed |-> FALSE]
\* a token that was not signed with the key of the service
Forged == [user_id |-> 1, exp |-> 0, signed |-> FALSE]
\* the token of a user logged in at time 0
SessionToken == Token(1, TOKEN_EXPIRY_HOURS)

\* the Authorization header: absent, "Bearer <token>", or the token alone
NoHeader == [scheme |-> "none", token |-> NoToken]
Bearer(t) == [scheme |-> "Bearer", token |-> t]
Bare(t) == [scheme |-> "bare", token |-> t]

\* the file part of an upload request; oversize stands for a content of more
\* than MAX_FILE_SIZE bytes
NoUpload == [present |-> FALSE, filename |-> <<>>, content |-> NoFile, oversize |-> FALSE]
Upload(filename, content, oversize) ==
    [present |-> TRUE, filename |-> filename, content |-> content, oversize |-> oversize]

Request(header, upload) == [authorization |-> header, upload |-> upload]
NoRequest == Request(NoHeader, NoUpload)

\* no request received, nobody logged in
HttpIdle ==
    /\ request = NoRequest
    /\ handler = "none"
    /\ blacklist = {}
    /\ issued = {}
    /\ now = 0

Respond(code, body) == [code |-> code, body |-> body]
\* the decorator calls the handler
Admitted == Respond(0, [status |-> "admitted"])

\* jwt.decode(token, key, algorithms=['HS256']): the signature, then the expiry
Decode(t) ==
    IF ~t.signed THEN "InvalidTokenError"
    ELSE IF t.exp <= now THEN "ExpiredSignatureError"
    ELSE "ok"

\* csv_controller.token_required, lines 32-52: what the decorator answers, or
\* Admitted.  A header without a space makes token.split(" ")[1] fail outside
\* the handled exceptions.
csv_token_required(header) ==
    IF header.scheme = "none" THEN Respond(401, [error |-> "Token is missing"])
    ELSE IF header.scheme = "bare" THEN Respond(500, [error |-> "Internal Server Error"])
    ELSE IF Decode(header.token) = "ExpiredSignatureError"
    THEN Respond(401, [error |-> "Token has expired"])
    ELSE IF Decode(header.token) = "InvalidTokenError"
    THEN Respond(401, [error |-> "Invalid token"])
    ELSE Admitted

\* user_controller.token_required, lines 37-74
user_token_required(header) ==
    IF header.scheme = "none" THEN Respond(401, [error |-> "Token is missing"])
    ELSE IF header.token \in blacklist
    THEN Respond(401, [error |-> "Token has been revoked"])
    ELSE IF Decode(header.token) = "ExpiredSignatureError"
    THEN Respond(401, [error |-> "Token has expired"])
    ELSE IF Decode(header.token) = "InvalidTokenError"
    THEN Respond(401, [error |-> "Invalid token"])
    ELSE IF header.token.user_id \notin Users
    THEN Respond(401, [error |-> "User not found"])
    ELSE Admitted

----------------------------------------------------------------------------
(* The inputs of a transform *)

U1 == APath
U2 == <<"u2", ".csv">>

HeaderNames == << <<"F", "i", "r", "s", "t", " ", "N", "a", "m", "e">>,
                  <<"L", "a", "s", "t", " ", "N", "a", "m", "e">> >>
LineXY == << <<" ", "x">>, <<"y">> >>

\* the five rows of the duplicate scenario: two of them are the same row
FiveRows == File(HeaderAB, <<Line12, Line3_, Line12, Line56, LineXY>>)
\* a bad line after a good one
BrokenFile == File(HeaderAB, <<Line12, LineWide, Line56>>)
\* what an earlier run left at the output path
StaleFile == File(HeaderAB, <<Line56, Line56>>)

TransformFiles ==
    {File(HeaderNames, ls) : ls \in SeqsUpTo({Line12, Line3_, LineXY}, MaxRows)}
    \cup {EmptyFile, FiveRows, BrokenFile}

Options ==
    [handle_missing : {"drop", "fill_mean", "fill_median", "fill_mode", "none"},
     trim_whitespace : BOOLEAN, convert_types : BOOLEAN,
     standardize_columns : BOOLEAN, remove_duplicates : BOOLEAN]

StoreKeys == {ProgressKey(U1), ProgressKey(U2), <<"csv_file:", "u1">>, <<"csv_file:", "u2">>}

\* the variables of the analysis, at rest
AnalysisIdle ==
    /\ apc = "idle"
    /\ sample_size = DefaultSampleSize
    /\ columns = <<>>
    /\ dtypes = <<>>
    /\ chunk_i = 0
    /\ total_rows = 0
    /\ missing_counts = <<>>
    /\ unique_trackers = <<>>
    /\ sample_values = <<>>
    /\ duplicate_estimate = 0
    /\ quality_report = NoReport
    /\ faults = 0
    /\ raised = NoException

\* one job, already enqueued, on an uploaded file
InitTransform ==
    /\ \E f \in TransformFiles, old \in {NoFile, StaleFile} :
         fs = [p \in Paths |-> IF p = U1 THEN f
                               ELSE IF p = OutputPath(U1) THEN old ELSE NoFile]
    /\ chunkSize \in ChunkSizes
    /\ \E options \in Options : jobs = <<NewJob(U1, options)>>
    /\ store = [k \in StoreKeys |-> NoEntry]
    /\ writes = <<>>
    /\ progress_data = NoEntry
    /\ response = NoResponse
    /\ AnalysisIdle
    /\ HttpIdle

NextTransform ==
    \/ \E j \in DOMAIN jobs : TaskProbe(j)
    \/ \E j \in DOMAIN jobs : TaskWhole(j)
    \/ \E j \in DOMAIN jobs : TaskChunk(j)
    \/ \E j \in DOMAIN jobs : TaskReturn(j)

SpecTransform == InitTransform /\ [][NextTransform]_vars

----------------------------------------------------------------------------
(* Claims about one transform run, checked under SpecTransform *)

TheJob == jobs[1]
Input == fs[TheJob.file_path]
Output == fs[OutputPath(TheJob.file_path)]
Finished == TheJob.pc = "finished"
Succeeded == Finished /\ TheJob.result.status = "success"
ErrorMessages == {"FileNotFoundError", "EmptyDataError", "ParserError", "OptionsError",
                  "OSError", "ConnectionError"}

\* C5: no exception of a transform reaches the worker: the run ends with one
\* result, success or error; an error result carries the message of the
\* failure, and an input that cannot be read never ends in success.
C5_NoExceptionEscapes ==
    /\ TheJob.pc # "failed"
    /\ Finished <=> TheJob.result # NoResult
    /\ Finished => TheJob.result.status \in {"success", "error"}
    /\ Finished /\ TheJob.result.status = "error" => TheJob.result.error \in ErrorMessages
    /\ Finished /\ ReadError(Input, Input.lines) # "ok" =>
            TheJob.result = [status |-> "error", error |-> ReadError(Input, Input.lines)]

\* C5 witness: the store fails after the second batch was written
C5_Witness ==
    /\ Finished
    /\ TheJob.result = [status |-> "error", error |-> "ConnectionError"]
    /\ Len(writes) = 1
    /\ Len(Output.lines) = 2

\* the positions of the rows that equal no earlier row
FirstOccurrences(rows) == {i \in 1..Len(rows) : \A k \in 1..(i - 1) : rows[k] # rows[i]}

\* C6: with remove_duplicates the result counts the distinct rows of the input
\* as rows_processed and the others as rows_removed, the two adding up to the
\* rows of the input; with no other option set the output holds the first
\* occurrence of every row, in the order of the input.
C6_DuplicatesRemoved ==
    Succeeded /\ TheJob.options.remove_duplicates =>
        LET typed == ReadTyped(Input, Input.lines)
            result == TheJob.result
        IN /\ result.rows_processed = Cardinality(Range(typed.rows))
           /\ result.rows_removed = Len(Input.lines) - Cardinality(Range(typed.rows))
           /\ result.rows_processed + result.rows_removed = Len(Input.lines)
           /\ (/\ TheJob.options.handle_missing = "none"
               /\ ~TheJob.options.trim_whitespace
               /\ ~TheJob.options.convert_types) =>
                 Output.lines =
                    CsvLines(Frame(typed.columns, typed.dtypes,
                                   FilterSeq(typed.rows,
                                             [i \in 1..Len(typed.rows) |->
                                                 i \in FirstOccurrences(typed.rows)])))

\* C6 witness: two equal rows among five give rows_processed 4, rows_removed 1
C6_Witness ==
    /\ Succeeded
    /\ Input = FiveRows
    /\ TheJob.options.remove_duplicates
    /\ TheJob.result.rows_processed = 4
    /\ TheJob.result.rows_removed = 1

\* C7: after a successful run with standardize_columns the header of the output
\* and the columns of the result are the standardized names of the input header,
\* whatever the other options are.
C7_HeaderStandardized ==
    Succeeded /\ TheJob.options.standardize_columns =>
        LET names == [i \in 1..Len(Input.header) |-> StandardizeName(Input.header[i])]
        IN Output.header = names /\ TheJob.result.columns = names

\* C8: in streaming mode every batch overwrites the progress record of the input
\* file with the running total, which is the number of rows written so far, and
\* an expiry of 300 seconds; the values written never decrease, and the last one
\* is the rows_processed of the result.
C8_ProgressRunningTotal ==
    LET key == ProgressKey(TheJob.file_path)
    IN /\ \A i \in 1..Len(writes) :
            /\ writes[i].key = key
            /\ writes[i].ttl = 300
            /\ i > 1 => writes[i - 1].value <= writes[i].value
       /\ writes # <<>> => store[key] = Entry(writes[Len(writes)].value, 300)
       /\ TheJob.pc = "stream" =>
            /\ Len(writes) = TheJob.chunk_num
            /\ writes # <<>> => writes[Len(writes)].value = Len(Output.lines)
       /\ Succeeded /\ ~TheJob.options.remove_duplicates =>
            /\ Len(writes) = NumChunks(Input, chunkSize)
            /\ writes[Len(writes)].value = TheJob.result.rows_processed

\* C8 witness: three batches of one row, one of them dropped: 1, 1, 2
C8_Witness ==
    /\ Succeeded
    /\ Len(writes) = 3
    /\ writes[1].value = 1 /\ writes[2].value = 1 /\ writes[3].value = 2
    /\ TheJob.result.rows_processed = 2

\* no cell of the file is read as a missing value
NoMissingCell(f) ==
    \A i \in 1..Len(f.lines) : \A j \in 1..Len(f.header) :
        CellText(f.lines[i], j) \notin NAMarkers

\* C13: for an input without a missing cell, a successful run with
\* handle_missing = drop in streaming mode writes as many data rows as the
\* input holds and reports that number as rows_processed, whatever the batch
\* size and the other options; with remove_duplicates as well, the rows written
\* and reported are the rows the removal of duplicates has left.
C13_DropKeepsCompleteRows ==
    Succeeded /\ TheJob.options.handle_missing = "drop" /\ NoMissingCell(Input) =>
        LET kept == IF TheJob.options.remove_duplicates
                    THEN Cardinality(FirstOccurrences(ReadTyped(Input, Input.lines).rows))
                    ELSE Len(Input.lines)
        IN /\ Len(Output.lines) = kept
           /\ TheJob.result.rows_processed = kept

\* C13 witness: three complete rows in three batches of one row, all kept
C13_Witness ==
    /\ Succeeded
    /\ TheJob.options.handle_missing = "drop"
    /\ ~TheJob.options.remove_duplicates
    /\ NoMissingCell(Input)
    /\ chunkSize = 1
    /\ Len(Input.lines) = 3
    /\ Len(Output.lines) = 3
    /\ TheJob.result.rows_processed = 3

\* the processed rows of batch i (from 0) of a streaming run of the job on f
BatchOf(job, f, i, N) ==
    LET read == ReadTyped(f, ChunkLines(f, i, N))
    IN apply_preprocessing_options(
            IF job.options.standardize_columns
            THEN Frame(job.columns, read.dtypes, read.rows) ELSE read,
            job.options)

\* the lines of the first k batches, batch after batch
RECURSIVE Streamed(_, _, _, _)
Streamed(job, f, k, N) ==
    IF k = 0 THEN <<>>
    ELSE Streamed(job, f, k - 1, N) \o CsvLines(BatchOf(job, f, k - 1, N))

\* C14: in streaming mode the output is not touched before the first batch;
\* once k batches are written, and after a successful run, the output file is
\* the one header followed by the processed rows of batch 1, ..., batch k in
\* the order of the file, with nothing of an earlier file at that path.
C14_OneHeaderThenBatches ==
    ~TheJob.options.remove_duplicates =>
        /\ TheJob.pc = "stream" /\ TheJob.chunk_num = 0 => Output \in {NoFile, StaleFile}
        /\ (TheJob.pc = "stream" /\ TheJob.chunk_num > 0) \/ Succeeded =>
              /\ Output = File(TheJob.columns,
                               Streamed(TheJob, Input, TheJob.chunk_num, chunkSize))
              /\ Succeeded => TheJob.chunk_num = NumChunks(Input, chunkSize)

\* C14 witness: a successful run of three batches of one row under a
\* standardized header; the three rows are in the output in file order
C14_Witness ==
    /\ Succeeded
    /\ ~TheJob.options.remove_duplicates
    /\ TheJob.options.standardize_columns
    /\ TheJob.options.handle_missing = "none"
    /\ ~TheJob.options.trim_whitespace /\ ~TheJob.options.convert_types
    /\ chunkSize = 1
    /\ Input = File(HeaderNames, <<Line12, LineXY, Line12>>)
    /\ Output = File(<< <<"f", "i", "r", "s", "t", "_", "n", "a", "m", "e">>,
                        <<"l", "a", "s", "t", "_", "n", "a", "m", "e">> >>,
                     <<Line12, LineXY, Line12>>)

\* C17: in every successful result rows_processed is the number of data rows
\* of the output file, in streaming mode and in whole-dataset mode alike.
C17_RowsProcessedIsRowsWritten ==
    Succeeded => TheJob.result.rows_processed = Len(Output.lines)

----------------------------------------------------------------------------
(* The endpoints that enqueue and poll the jobs, and the passing of time   *)

\* jobs enqueued in one run of the model
MaxJobs == 2
\* the expiry of the metadata of an upload, in seconds
MetadataTTL == 7200

MetadataKey(file_id) == <<"csv_file:", file_id>>

\* lines 383-414: POST /preprocess
preprocess_csv(header, file_id, options) ==
    /\ Len(jobs) < MaxJobs
    /\ request' = Request(header, NoUpload)
    /\ IF csv_token_required(header) # Admitted
       THEN /\ response' = csv_token_required(header)
            /\ UNCHANGED jobs
       ELSE IF file_id = ""
       THEN /\ response' = Respond(400, [error |-> "File ID is required"])
            /\ UNCHANGED jobs
       ELSE IF ~store[MetadataKey(file_id)].exists
       THEN /\ response' = Respond(404, [error |-> "File not found or expired"])
            /\ UNCHANGED jobs
       ELSE /\ jobs' = Append(jobs, NewJob(store[MetadataKey(file_id)].value, options))
            /\ response' = Respond(202, [task_id |-> Len(jobs) + 1, status |-> "queued"])
    /\ UNCHANGED <<handler, authvars, fs, chunkSize, avars, store, writes, progress_data>>

\* lines 437-444: the answer for a job that is neither finished nor failed; the
\* record is the JSON object {rows_processed: n}, and job.meta is never written
ProcessingBody(data) ==
    [status |-> "processing", progress |-> 0,
     rows_processed |-> IF data.exists THEN data.value ELSE 0]

\* lines 416-447: GET /task-status/<task_id>
get_task_status(header, task_id) ==
    /\ request' = Request(header, NoUpload)
    /\ IF csv_token_required(header) # Admitted
       THEN /\ response' = csv_token_required(header)
            /\ UNCHANGED progress_data
       ELSE IF task_id \notin DOMAIN jobs
       THEN /\ response' = Respond(404, [error |-> "Task not found"])
            /\ UNCHANGED progress_data
       ELSE IF jobs[task_id].pc = "finished"
       THEN /\ response' = Respond(200, [status |-> "completed",
                                         result |-> jobs[task_id].result])
            /\ UNCHANGED progress_data
       ELSE IF jobs[task_id].pc = "failed"
       THEN /\ response' = Respond(200, [status |-> "failed"])
            /\ UNCHANGED progress_data
       ELSE /\ progress_data' = store[ProgressKey(jobs[task_id].file_path)]
            /\ response' = Respond(200, ProcessingBody(progress_data'))
    /\ UNCHANGED <<handler, authvars, fs, chunkSize, avars, jobs, store, writes>>

\* an entry of the store reaches the end of its time-to-live
Expire(key) ==
    /\ store[key].exists
    /\ store' = [store EXCEPT ![key] = NoEntry]
    /\ UNCHANGED <<hvars, fs, chunkSize, avars, jobs, writes, progress_data, response>>

TwoRows == File(HeaderNames, <<LineXY, Line12>>)

\* the configurations the requests of the model carry
Plain == [handle_missing |-> "none", trim_whitespace |-> FALSE, convert_types |-> FALSE,
          standardize_columns |-> FALSE, remove_duplicates |-> FALSE]
RequestOptions == {[Plain EXCEPT !.handle_missing = "drop"],
                   [Plain EXCEPT !.remove_duplicates = TRUE]}

\* two files uploaded, no job enqueued yet
InitJobs ==
    /\ fs = [p \in Paths |-> IF p = U1 THEN ThreeRows ELSE IF p = U2 THEN TwoRows ELSE NoFile]
    /\ chunkSize \in {2, CHUNK_SIZE}
    /\ jobs = <<>>
    /\ store = [k \in StoreKeys |->
                  IF k = MetadataKey("u1") THEN Entry(U1, MetadataTTL)
                  ELSE IF k = MetadataKey("u2") THEN Entry(U2, MetadataTTL)
                  ELSE NoEntry]
    /\ writes = <<>>
    /\ progress_data = NoEntry
    /\ response = NoResponse
    /\ AnalysisIdle
    /\ request = NoRequest
    /\ handler = "none"
    /\ blacklist = {}
    /\ issued = {SessionToken}
    /\ now = 0

NextJobs ==
    \/ \E file_id \in {"", "u1", "u2"}, options \in RequestOptions :
            preprocess_csv(Bearer(SessionToken), file_id, options)
    \/ \E task_id \in 1..MaxJobs : get_task_status(Bearer(SessionToken), task_id)
    \/ \E key \in StoreKeys : Expire(key)
    \/ \E j \in DOMAIN jobs : TaskProbe(j)
    \/ \E j \in DOMAIN jobs : TaskWhole(j)
    \/ \E j \in DOMAIN jobs : TaskChunk(j)
    \/ \E j \in DOMAIN jobs : TaskReturn(j)

SpecJobs == InitJobs /\ [][NextJobs]_vars

----------------------------------------------------------------------------
(* Claims about the progress records of concurrent jobs, under SpecJobs *)

\* C9: every progress key is written by one job only.
C9_OneWriterPerKey ==
    \A i, k \in 1..Len(writes) :
        writes[i].key = writes[k].key => writes[i].job = writes[k].job

\* C10: a poll of a running job that finds no progress record does not report
\* the rows_processed of a record holding 0.
C10_AbsentIsNotZero ==
    response.code = 200 /\ response.body.status = "processing" /\ ~progress_data.exists
        => response.body.rows_processed # 0

\* lines 196-249: the output file a job on f writes when it runs alone to a
\* successful end
AloneOutput(job, f, N) ==
    IF job.options.remove_duplicates
    THEN WriteCsv(apply_preprocessing_options(drop_duplicates(ReadTyped(f, f.lines)),
                                              job.options))
    ELSE File(job.columns, Streamed(job, f, NumChunks(f, N), N))

\* the jobs enqueued for the upload at path p
JobsOn(p) == {j \in DOMAIN jobs : jobs[j].file_path = p}

\* C15: when two jobs for the same upload have both run to a successful end,
\* the output file is the output one of the two would have written alone.
C15_OutputOfOneJob ==
    \A p \in {U1, U2} :
        (/\ Cardinality(JobsOn(p)) = 2
         /\ \A j \in JobsOn(p) :
                jobs[j].pc = "finished" /\ jobs[j].result.status = "success")
        => \E j \in JobsOn(p) : fs[OutputPath(p)] = AloneOutput(jobs[j], fs[p], chunkSize)

----------------------------------------------------------------------------
(* POST /upload: the file is saved, previewed and analysed within the      *)
(* request.  The upload folder of the model has room for one upload, saved *)
(* at APath under the file id "u1".                                        *)

\* nrows of the preview read
PreviewRows == 10

\* lines 54-56: the name has an extension, and it is csv in any case
allowed_file(filename) ==
    Len(filename) > 0 /\ filename[Len(filename)] \in {".csv", ".CSV"}

\* lines 299-308: the checks of the request before anything is saved
UploadRefusal(header, upload) ==
    IF csv_token_required(header) # Admitted THEN csv_token_required(header)
    ELSE IF ~upload.present THEN Respond(400, [error |-> "No file provided"])
    ELSE IF upload.filename = <<>> THEN Respond(400, [error |-> "No file selected"])
    ELSE IF ~allowed_file(upload.filename)
    THEN Respond(400, [error |-> "Invalid file type. Only CSV files are allowed"])
    ELSE Admitted

\* line 74: the locals of a new call of analyze_csv_quality_chunked(file_path)
StartAnalysis ==
    /\ apc' = "start"
    /\ sample_size' = DefaultSampleSize
    /\ columns' = <<>>
    /\ dtypes' = <<>>
    /\ chunk_i' = 0
    /\ total_rows' = 0
    /\ missing_counts' = <<>>
    /\ unique_trackers' = <<>>
    /\ sample_values' = <<>>
    /\ duplicate_estimate' = 0
    /\ quality_report' = NoReport
    /\ faults' = 0
    /\ raised' = NoException

\* lines 293-345: the request is checked, the file is saved, a file over the
\* size limit is removed again, and the analysis is called
upload_csv(header, upload) ==
    /\ handler = "none"
    /\ ~fs[APath].exists
    /\ request' = Request(header, upload)
    /\ IF UploadRefusal(header, upload) # Admitted
       THEN /\ response' = UploadRefusal(header, upload)
            /\ UNCHANGED <<fs, handler, avars>>
       ELSE IF upload.oversize
       THEN /\ response' = Respond(400, [error |-> "File size exceeds limit"])
            /\ UNCHANGED <<fs, handler, avars>>
       ELSE /\ fs' = [fs EXCEPT ![APath] = upload.content]
            /\ handler' = "upload"
            /\ response' = NoResponse
            /\ StartAnalysis
    /\ UNCHANGED <<authvars, chunkSize, jobs, store, writes, progress_data>>

\* lines 324-342: the preview, a lenient typed read of the first rows; a read
\* that fails gives no rows
Preview(f) ==
    IF ~f.exists \/ f.header = <<>> THEN <<>>
    ELSE LET df == ReadTyped(f, LenientLines(f, Prefix(f, PreviewRows), {}))
         IN [i \in 1..Len(df.rows) |->
                [j \in 1..Len(df.columns) |-> safe_convert_value(df.rows[i][j])]]

\* lines 370-381: the answer to an exception, by its class
UploadFailure(e) ==
    CASE e.type = "EmptyDataError" -> Respond(400, [error |-> "CSV file is empty"])
      [] e.type = "ParserError" ->
            Respond(400, [error |-> "Invalid CSV format", detail |-> e.message])
      [] OTHER -> Respond(500, [error |-> "Upload failed", detail |-> e.message])

\* lines 345-381: after the analysis the metadata is stored and the report is
\* answered; when the analysis raised, the file is removed and the exception
\* is answered
UploadRespond ==
    /\ handler = "upload"
    /\ apc \in {"done", "raised"}
    /\ handler' = "none"
    /\ apc' = "idle"
    /\ IF apc = "done"
       THEN /\ store' = [store EXCEPT ![MetadataKey("u1")] = Entry(APath, MetadataTTL)]
            /\ response' =
                 Respond(200, [message |-> "File uploaded successfully",
                               file_id |-> "u1",
                               preview |-> Preview(fs[APath]),
                               quality_report |-> quality_report,
                               is_large_file |-> quality_report.is_large_file])
            /\ UNCHANGED fs
       ELSE /\ fs' = [fs EXCEPT ![APath] = NoFile]
            /\ response' = UploadFailure(raised)
            /\ UNCHANGED store
    /\ UNCHANGED <<request, authvars, chunkSize, sample_size, columns, dtypes, chunk_i,
                   total_rows, missing_counts, unique_trackers, sample_values,
                   duplicate_estimate, quality_report, faults, raised, jobs, writes,
                   progress_data>>

\* a header line and no data line
HeaderOnlyFile == File(HeaderAB, <<>>)
UploadFiles == {EmptyFile, BrokenFile, ThreeRows, HeaderOnlyFile}
Uploads ==
    {NoUpload} \cup
    {Upload(filename, content, oversize) :
        filename \in {<<>>, <<"data", ".txt">>, <<"data", ".csv">>},
        content \in UploadFiles, oversize \in BOOLEAN}

\* an empty upload folder and a logged-in user
InitUpload ==
    /\ fs = [p \in Paths |-> NoFile]
    /\ chunkSize \in ChunkSizes
    /\ jobs = <<>>
    /\ store = [k \in StoreKeys |-> NoEntry]
    /\ writes = <<>>
    /\ progress_data = NoEntry
    /\ response = NoResponse
    /\ AnalysisIdle
    /\ request = NoRequest
    /\ handler = "none"
    /\ blacklist = {}
    /\ issued = {SessionToken}
    /\ now = 0

NextUpload ==
    \/ \E header \in {NoHeader, Bearer(SessionToken)}, upload \in Uploads :
            upload_csv(header, upload)
    \/ AnalyzeProbe
    \/ AnalyzeChunk
    \/ AnalyzeDuplicates
    \/ AnalyzeAssemble
    \/ UploadRespond

SpecUpload == InitUpload /\ [][NextUpload]_vars

\* the upload last received passed the checks of the request and was answered
UploadAnswered ==
    /\ UploadRefusal(request.authorization, request.upload) = Admitted
    /\ ~request.upload.oversize
    /\ response # NoResponse

\* C16: the upload of an empty CSV is answered with 400 'CSV file is empty'
\* and the upload of a file with a structural parse error with 400 'Invalid
\* CSV format'; in both cases the saved file is removed and no metadata is
\* stored.
C16_UploadParseErrors ==
    UploadAnswered =>
        LET f == request.upload.content
        IN /\ f.header = <<>> =>
                /\ response = Respond(400, [error |-> "CSV file is empty"])
                /\ ~fs[APath].exists
                /\ ~store[MetadataKey("u1")].exists
           /\ ReadError(f, f.lines) = "ParserError" =>
                /\ response.code = 400
                /\ response.body.error = "Invalid CSV format"
                /\ ~fs[APath].exists
                /\ ~store[MetadataKey("u1")].exists

----------------------------------------------------------------------------
(* Login, logout and the token-protected endpoints of the two controllers. *)
(* Of user_controller the endpoints that issue, revoke and check tokens    *)
(* are modelled; register, PUT /profile and change-password are not.       *)

\* user_controller, lines 131-175: POST /login; the credentials are missing,
\* wrong, or those of user 1
login(credentials) ==
    /\ Cardinality(issued) < MaxTokens
    /\ request' = Request(NoHeader, NoUpload)
    /\ CASE credentials = "missing" ->
              /\ response' = Respond(400, [error |-> "Email and password are required"])
              /\ UNCHANGED issued
         [] credentials = "wrong" ->
              /\ response' = Respond(401, [error |-> "Invalid email or password"])
              /\ UNCHANGED issued
         [] OTHER ->
              /\ issued' = issued \cup {Token(1, now + TOKEN_EXPIRY_HOURS)}
              /\ response' = Respond(200, [message |-> "Login successful",
                                            token |-> Token(1, now + TOKEN_EXPIRY_HOURS)])
    /\ UNCHANGED <<handler, blacklist, now, fs, chunkSize, avars, jobs, store, writes,
                   progress_data>>

\* user_controller, lines 177-205: POST /logout; the token of an admitted
\* request is added to the blacklist, unless the commit fails
logout(header) ==
    /\ request' = Request(header, NoUpload)
    /\ IF user_token_required(header) # Admitted
       THEN /\ response' = user_token_required(header)
            /\ UNCHANGED blacklist
       ELSE \E commit \in BOOLEAN :
            IF commit
            THEN /\ blacklist' = blacklist \cup {header.token}
                 /\ response' = Respond(200, [message |-> "Logout successful"])
            ELSE /\ response' = Respond(500, [error |-> "Logout failed"])
                 /\ UNCHANGED blacklist
    /\ UNCHANGED <<handler, issued, now, fs, chunkSize, avars, jobs, store, writes,
                   progress_data>>

\* user_controller, lines 207-231: POST /refresh-token
refresh_token(header) ==
    /\ Cardinality(issued) < MaxTokens
    /\ request' = Request(header, NoUpload)
    /\ IF user_token_required(header) # Admitted
       THEN /\ response' = user_token_required(header)
            /\ UNCHANGED issued
       ELSE /\ issued' = issued \cup {Token(header.token.user_id, now + TOKEN_EXPIRY_HOURS)}
            /\ response' =
                 Respond(200, [message |-> "Token refreshed successfully",
                               token |-> Token(header.token.user_id,
                                               now + TOKEN_EXPIRY_HOURS)])
    /\ UNCHANGED <<handler, blacklist, now, fs, chunkSize, avars, jobs, store, writes,
                   progress_data>>

\* user_controller, lines 233-247: GET /profile
get_profile(header) ==
    /\ request' = Request(header, NoUpload)
    /\ response' = IF user_token_required(header) # Admitted
                   THEN user_token_required(header)
                   ELSE Respond(200, [user |-> header.token.user_id])
    /\ UNCHANGED <<handler, authvars, fs, chunkSize, avars, jobs, store, writes,
                   progress_data>>

\* csv_controller, lines 449-468: GET /download/<file_id>
download_processed_csv(header, file_id) ==
    /\ request' = Request(header, NoUpload)
    /\ response' =
         IF csv_token_required(header) # Admitted THEN csv_token_required(header)
         ELSE IF ~store[MetadataKey(file_id)].exists
         THEN Respond(404, [error |-> "File not found or expired"])
         ELSE IF ~fs[OutputPath(store[MetadataKey(file_id)].value)].exists
         THEN Respond(404, [error |-> "Processed file not found"])
         ELSE Respond(200, [file |-> fs[OutputPath(store[MetadataKey(file_id)].value)]])
    /\ UNCHANGED <<handler, authvars, fs, chunkSize, avars, jobs, store, writes,
                   progress_data>>

\* the clock advances
Tick ==
    /\ now + TickHours <= MaxTime
    /\ now' = now + TickHours
    /\ UNCHANGED <<request, handler, blacklist, issued, fs, chunkSize, avars, jvars>>

\* the headers a client can send: none, a token it was given or a forged one
\* as a Bearer header, or a token it was given without the scheme
Headers ==
    {NoHeader} \cup {Bearer(t) : t \in issued \cup {Forged}} \cup {Bare(t) : t \in issued}

\* an upload with its processed file, its metadata stored, nobody logged in
InitAuth ==
    /\ fs = [p \in Paths |-> IF p = U1 THEN TwoRows
                              ELSE IF p = OutputPath(U1) THEN TwoRows ELSE NoFile]
    /\ chunkSize = CHUNK_SIZE
    /\ jobs = <<>>
    /\ store = [k \in StoreKeys |->
                  IF k = MetadataKey("u1") THEN Entry(U1, MetadataTTL) ELSE NoEntry]
    /\ writes = <<>>
    /\ progress_data = NoEntry
    /\ response = NoResponse
    /\ AnalysisIdle
    /\ HttpIdle

NextAuth ==
    \/ \E credentials \in {"missing", "wrong", "right"} : login(credentials)
    \/ \E header \in Headers : logout(header)
    \/ \E header \in Headers : refresh_token(header)
    \/ \E header \in Headers : get_profile(header)
    \/ \E header \in Headers, file_id \in {"u1", "u2"} : preprocess_csv(header, file_id, Plain)
    \/ \E header \in Headers, task_id \in 1..MaxJobs : get_task_status(header, task_id)
    \/ \E header \in Headers, file_id \in {"u1", "u2"} :
            download_processed_csv(header, file_id)
    \/ Tick

SpecAuth == InitAuth /\ [][NextAuth]_vars

\* C18: every request received with a blacklisted token is answered with 401,
\* by the endpoints of the CSV controller as by those of the user controller.
\* A step that changes the request or the response and is not the late answer
\* of the upload handler is the receipt of a request.
C18_RevokedTokenRejected ==
    [][(/\ <<request, response>>' # <<request, response>>
        /\ ~(handler = "upload" /\ handler' = "none")
        /\ request'.authorization.token \in blacklist)
       => response'.code = 401]_vars

----------------------------------------------------------------------------
(* A transform run again on its own output.  The output of a job is        *)
(* downloaded and uploaded as a new file, and the same configuration is    *)
(* requested for it.                                                       *)

\* a row whose second cell is a blank
LineBlank == << <<"x">>, <<" ">> >>

RerunFiles ==
    {File(HeaderAB, ls) : ls \in SeqsUpTo({Line3_, LineXY, LineBlank}, MaxRerunRows)}

\* lines 449-468, 312-316 and 401-407: the processed file of the finished job
\* is sent, saved as the upload u2 byte for byte, and a job with the options of
\* the first is enqueued for it
Resubmit ==
    /\ Len(jobs) = 1
    /\ jobs[1].pc = "finished"
    /\ jobs[1].result.status = "success"
    /\ fs[OutputPath(jobs[1].file_path)].exists
    /\ fs' = [fs EXCEPT ![U2] = fs[OutputPath(jobs[1].file_path)]]
    /\ jobs' = Append(jobs, NewJob(U2, jobs[1].options))
    /\ UNCHANGED <<hvars, chunkSize, avars, store, writes, progress_data, response>>

\* one job with trim_whitespace on an uploaded file, nothing at the output paths
InitRerun ==
    /\ \E f \in RerunFiles : fs = [p \in Paths |-> IF p = U1 THEN f ELSE NoFile]
    /\ chunkSize \in ChunkSizes
    /\ \E options \in {o \in Options : o.trim_whitespace} : jobs = <<NewJob(U1, options)>>
    /\ store = [k \in StoreKeys |-> NoEntry]
    /\ writes = <<>>
    /\ progress_data = NoEntry
    /\ response = NoResponse
    /\ AnalysisIdle
    /\ HttpIdle

NextRerun ==
    \/ \E j \in DOMAIN jobs : TaskProbe(j)
    \/ \E j \in DOMAIN jobs : TaskWhole(j)
    \/ \E j \in DOMAIN jobs : TaskChunk(j)
    \/ \E j \in DOMAIN jobs : TaskReturn(j)
    \/ Resubmit

SpecRerun == InitRerun /\ [][NextRerun]_vars

\* both runs have ended in success
BothSucceeded ==
    /\ Len(jobs) = 2
    /\ \A j \in 1..2 : jobs[j].pc = "finished" /\ jobs[j].result.status = "success"

\* C12: when a transform with trim_whitespace and the same transform of its
\* output have both succeeded, the second output is identical to the first.
C12_TrimIdempotent ==
    BothSucceeded => fs[OutputPath(U2)] = fs[OutputPath(U1)]

====
